---------------------------- MODULE Spec2Model ----------------------------
(***************************************************************************)
(* Model of the bulk user creation script: main.py (read_users_from_csv    *)
(* and main), create_user.py (create_user) and subscribe.py (subscribe).   *)
(*                                                                         *)
(* A run is: open and read the CSV file row by row, validate each row,     *)
(* return the list of users, and for each user call create_user and, when  *)
(* it returned a truthy user id, subscribe; append one result row, count,  *)
(* print the summary and exit.                                             *)
(*                                                                         *)
(* Strings are sequences of one-character strings, so that strip(),        *)
(* lower() and len() are computed and not assumed.                         *)
(***************************************************************************)
EXTENDS Naturals, Sequences, FiniteSets

(***************************************************************************)
(* Bounds of the model.                                                    *)
(***************************************************************************)
\* The largest number of csv rows (blank lines included) in an input file.
MaxRows == 3

(***************************************************************************)
(* Python values.  A value is tagged with its type: str.strip exists only  *)
(* on str, and `if user_id` tests truthiness.                              *)
(***************************************************************************)
Str(s) == [t |-> "str", v |-> s]
None == [t |-> "none", v |-> <<>>]
List(l) == [t |-> "list", v |-> l]

\* str.isspace for the characters the inputs use
IsSpace(c) == c \in {" ", "\t"}

RECURSIVE LStrip(_)
LStrip(s) == IF s # <<>> /\ IsSpace(Head(s)) THEN LStrip(Tail(s)) ELSE s

RECURSIVE RStrip(_)
RStrip(s) ==
    IF s # <<>> /\ IsSpace(s[Len(s)]) THEN RStrip(SubSeq(s, 1, Len(s) - 1)) ELSE s

\* str.strip()
Strip(s) == RStrip(LStrip(s))

UpperChars == <<"A", "B", "C", "D", "E", "F", "G", "H", "I", "J", "K", "L", "M",
                "N", "O", "P", "Q", "R", "S", "T", "U", "V", "W", "X", "Y", "Z">>
LowerChars == <<"a", "b", "c", "d", "e", "f", "g", "h", "i", "j", "k", "l", "m",
                "n", "o", "p", "q", "r", "s", "t", "u", "v", "w", "x", "y", "z">>

LowerChar(c) ==
    IF \E k \in 1..Len(UpperChars) : UpperChars[k] = c
    THEN LowerChars[CHOOSE k \in 1..Len(UpperChars) : UpperChars[k] = c]
    ELSE c

\* str.lower()
Lower(s) == [k \in 1..Len(s) |-> LowerChar(s[k])]

(***************************************************************************)
(* csv.DictReader over the header                                          *)
(*   email,username,display_name,given_name,family_name                    *)
(***************************************************************************)
FieldNames == <<"email", "username", "display_name", "given_name", "family_name">>

\* The key under which DictReader stores the values beyond the header (restkey).
RestKey == "restkey"

NumFields == Len(FieldNames)

FieldIndex(key) == CHOOSE k \in 1..NumFields : FieldNames[k] = key

\* A csv row is the sequence of its raw field values; a blank line is <<>>.

DictKeys(row) ==
    {FieldNames[k] : k \in 1..NumFields} \cup (IF Len(row) > NumFields THEN {RestKey} ELSE {})

\* The dict DictReader builds for a non-blank row: a missing value is None
\* (restval), the surplus values are a list under restkey.
DictRow(row) ==
    [key \in DictKeys(row) |->
        IF key = RestKey THEN List(SubSeq(row, NumFields + 1, Len(row)))
        ELSE IF FieldIndex(key) <= Len(row) THEN Str(row[FieldIndex(key)])
        ELSE None]

\* DictReader.__next__ skips the blank lines: the position of the next
\* non-blank row after pos, or Len(rows) + 1 at the end of the file.
RECURSIVE NextNonBlank(_, _)
NextNonBlank(rows, p) ==
    IF p < Len(rows) /\ rows[p + 1] = <<>> THEN NextNonBlank(rows, p + 1) ELSE p + 1

(***************************************************************************)
(* read_users_from_csv: the body of the loop over the rows                 *)
(***************************************************************************)
\* {key: value.strip() ...} raises AttributeError when a value is not a str.
StripRaises(row) == \E key \in DOMAIN DictRow(row) : DictRow(row)[key].t # "str"

\* user_data, for a row on which strip does not raise
StripRow(row) == [key \in DOMAIN DictRow(row) |-> Strip(DictRow(row)[key].v)]

\* not any(user_data.values())
AllEmpty(user_data) == \A key \in DOMAIN user_data : user_data[key] = <<>>

\* missing_fields, in the order of the dict's keys
MissingFields(user_data) ==
    SelectSeq(FieldNames, LAMBDA key : user_data[key] = <<>>)

ReservedNames ==
    { <<"a", "d", "m", "i", "n", "i", "s", "t", "r", "a", "t", "o", "r">>,
      <<"a", "w", "s", "a", "d", "m", "i", "n", "i", "s", "t", "r", "a", "t", "o", "r", "s">> }

IsReserved(username) == Lower(username) \in ReservedNames

MaxUsernameLen == 128

\* TooLong with the comparison off by one
TooLongOffByOne(username) == Len(username) >= MaxUsernameLen

TooLong(username) == Len(username) > MaxUsernameLen

\* Which branch of the loop body a stripped row takes.
Validate(user_data) ==
    IF AllEmpty(user_data) THEN "empty"
    ELSE IF MissingFields(user_data) # <<>> THEN "missing"
    ELSE IF IsReserved(user_data["username"]) THEN "reserved"
    ELSE IF TooLong(user_data["username"]) THEN "too_long"
    ELSE "ok"

\* SkipDiagnostic without the message for a reserved username
SkipDiagnosticSilentReserved(row_num, user_data) ==
    LET branch == Validate(user_data) IN
    IF branch = "missing"
    THEN <<[row |-> row_num, reason |-> "missing fields",
            detail |-> MissingFields(user_data)]>>
    ELSE IF branch = "too_long"
    THEN <<[row |-> row_num, reason |-> "exceeds 128 characters", detail |-> <<>>]>>
    ELSE <<>>

\* What the branch prints: nothing for an empty row and for a valid one.
SkipDiagnostic(row_num, user_data) ==
    LET branch == Validate(user_data) IN
    IF branch = "missing"
    THEN <<[row |-> row_num, reason |-> "missing fields",
            detail |-> MissingFields(user_data)]>>
    ELSE IF branch = "reserved"
    THEN <<[row |-> row_num, reason |-> "is reserved", detail |-> <<>>]>>
    ELSE IF branch = "too_long"
    THEN <<[row |-> row_num, reason |-> "exceeds 128 characters", detail |-> <<>>]>>
    ELSE <<>>

\* AppendUser inserting at the front
PrependUser(users, user_data) == <<user_data>> \o users

\* users.append(user_data)
AppendUser(users, user_data) == Append(users, user_data)


(***************************************************************************)
(* create_user (create_user.py)                                            *)
(***************************************************************************)
\* What client.create_user does: it returns a response dict, raises a
\* ClientError with an error code, or raises something else.
OkResponse(UserId) == [kind |-> "ok", code |-> "", UserId |-> UserId]
ClientError(code) == [kind |-> "ClientError", code |-> code, UserId |-> None]
OtherException == [kind |-> "Exception", code |-> "", UserId |-> None]

\* The message create_user builds for a ClientError code.
ClientErrorMessage(code) ==
    IF code = "ConflictException" THEN "User already exists"
    ELSE IF code = "ValidationException" THEN "Validation error for user"
    ELSE IF code = "AccessDeniedException" THEN "Access denied creating user"
    ELSE IF code = "ResourceNotFoundException" THEN "Identity store not found"
    ELSE "Failed to create user"

\* The tuple (success, message, user_id) create_user returns.
create_user(user_data, resp) ==
    IF resp.kind = "ok"
    THEN [success |-> TRUE, message |-> "Successfully created user",
          user_id |-> resp.UserId]
    ELSE IF resp.kind = "ClientError"
    THEN [success |-> FALSE, message |-> ClientErrorMessage(resp.code),
          user_id |-> None]
    ELSE [success |-> FALSE, message |-> "Unexpected error creating user",
          user_id |-> None]

(***************************************************************************)
(* subscribe (subscribe.py)                                                *)
(***************************************************************************)
\* The JSON payload of the CreateAssignment request.
SubscribePayload(principal_id, principal_type) ==
    [principalId |-> principal_id, principalType |-> principal_type]

HttpResponse(status_code) == [raised |-> FALSE, status_code |-> status_code]
SubscribeRaises == [raised |-> TRUE, status_code |-> 0]

(***************************************************************************)
(* main: the decisions of the processing loop and of the exit              *)
(***************************************************************************)
\* Python truthiness of user_id: None and "" are falsy.
Truthy(value) == value.t = "str" /\ value.v # <<>>

\* ShouldSubscribe with the guard dropped
SubscribeRegardless(success, user_id) == TRUE

\* if success and user_id:
ShouldSubscribe(success, user_id) == success /\ Truthy(user_id)

HttpOk == 200

\* The try block around subscribe: (subscription_success, subscription_message)
SubscriptionOutcome(resp) ==
    IF resp.raised
    THEN [subscription_success |-> FALSE, subscription_message |-> "Error subscribing user"]
    ELSE IF resp.status_code = HttpOk
    THEN [subscription_success |-> TRUE,
          subscription_message |-> "Successfully subscribed user"]
    ELSE [subscription_success |-> FALSE,
          subscription_message |-> "Failed to subscribe user: HTTP"]

SkippedMessage == "Skipped subscription due to user creation failure"

\* The else branch: subscription_success keeps its initial False.
SkippedOutcome ==
    [subscription_success |-> FALSE, subscription_message |-> SkippedMessage]

\* NoUsers with the check dropped
NoUsersUnchecked(users) == FALSE

\* if not users:
NoUsers(users) == users = <<>>

\* AppendResult keeping only the rows of created users
AppendResultIfCreated(results, row) == IF row.success THEN Append(results, row) ELSE results

\* results.append((username, success, message, subscription_success, subscription_message))
AppendResult(results, row) == Append(results, row)

\* ExitCode looking at the creations only
ExitCodeCreationsOnly(failed_users, failed_subscriptions) ==
    IF failed_users > 0 THEN 1 ELSE 0

\* sys.exit(1) when failed_users > 0 or failed_subscriptions > 0, else the
\* script ends normally.
ExitCode(failed_users, failed_subscriptions) ==
    IF failed_users > 0 \/ failed_subscriptions > 0 THEN 1 ELSE 0

(***************************************************************************)
(* Inputs                                                                  *)
(***************************************************************************)
\* A pseudo-character standing for a field longer than the csv module's
\* field size limit: the reader raises csv.Error on such a line.
OverLimit == "<field larger than field limit>"

ReaderRaises(row) == \E f \in 1..Len(row) : \E k \in 1..Len(row[f]) : row[f][k] = OverLimit

Email == <<"a", "@", "x">>
DisplayName == <<"B", "o", "b", " ", "B">>
GivenName == <<"B", "o", "b">>
FamilyName == <<"B">>
Repeat(c, n) == [k \in 1..n |-> c]

RowPadded == << <<" ">> \o Email, <<" ", "B", "o", "b", "\t">>, DisplayName \o <<" ">>,
               GivenName, FamilyName >>
RowLen128 == <<Email, <<" ">> \o Repeat("u", MaxUsernameLen), DisplayName, GivenName, FamilyName>>
RowLen129 == <<Email, Repeat("u", MaxUsernameLen + 1), DisplayName, GivenName, FamilyName>>
RowReserved ==
    <<Email, <<" ", "A", "d", "m", "i", "n", "i", "s", "t", "r", "A", "T", "O", "R">>,
      DisplayName, GivenName, FamilyName>>
RowAwsReserved ==
    <<Email, <<"A", "W", "S", "a", "d", "m", "i", "n", "i", "s", "t", "r", "a", "t", "o", "r", "s">>,
      DisplayName, GivenName, FamilyName>>
RowMissing == << <<>>, <<"b", "o", "b">>, DisplayName, <<" ", "\t">>, FamilyName>>
RowAllEmpty == << <<>>, <<" ">>, <<>>, <<"\t">>, <<>> >>
RowBlank == <<>>
RowShort == <<Email, <<"b", "o", "b">> >>
RowExtra == <<Email, <<"b", "o", "b">>, DisplayName, GivenName, FamilyName, <<"x">> >>
RowOverLimit == <<Email, <<OverLimit>>, DisplayName, GivenName, FamilyName>>

\* The lines an input file is made of, by name, and the csv row of each.
LineNames ==
    {"padded", "len128", "len129", "reserved", "aws_reserved", "missing", "all_empty",
     "blank", "short", "extra", "over_limit"}

Row(line) ==
    CASE line = "padded" -> RowPadded
      [] line = "len128" -> RowLen128
      [] line = "len129" -> RowLen129
      [] line = "reserved" -> RowReserved
      [] line = "aws_reserved" -> RowAwsReserved
      [] line = "missing" -> RowMissing
      [] line = "all_empty" -> RowAllEmpty
      [] line = "blank" -> RowBlank
      [] line = "short" -> RowShort
      [] line = "extra" -> RowExtra
      [] line = "over_limit" -> RowOverLimit

\* The input files: one that cannot be opened, and every file of at most
\* MaxRows lines after the expected header.
Files ==
    {[opens |-> FALSE, lines |-> <<>>]} \cup
    {[opens |-> TRUE, lines |-> l] : l \in UNION {[1..n -> LineNames] : n \in 0..MaxRows}}

DigitChars == <<"1", "2", "3", "4", "5", "6", "7", "8", "9">>

\* The id the identity store assigns to the i-th created user.
UserIdFor(i) == Str(<<"i", "d", "-", DigitChars[i]>>)

\* What client.create_user may answer for the i-th record.
CreateResponses(i) ==
    {OkResponse(UserIdFor(i)), OkResponse(None), OkResponse(Str(<<>>)),
     ClientError("ConflictException"), ClientError("ThrottlingException"),
     OtherException}

\* What subscribe may do: return a response with a status code, or raise.
SubscribeResponses == {HttpResponse(HttpOk), HttpResponse(403), SubscribeRaises}

(***************************************************************************)
(* State                                                                   *)
(***************************************************************************)
VARIABLES
    pc,                        \* where main is
    file,                      \* the input file
    pos,                       \* rows of the file the reader has consumed
    row_num,                   \* the number enumerate gives the next row
    users,                     \* read_users_from_csv's list
    printed,                   \* the skip diagnostics printed so far
    i,                         \* the loop's index into users (from 1)
    total_users,
    successful_users,
    failed_users,
    successful_subscriptions,
    failed_subscriptions,
    results,
    cur,                       \* the loop body's locals
    calls,                     \* the remote calls made so far, with what they returned
    exit_code,                 \* the process's exit code, once it has exited
    fatal                      \* the fatal message printed before sys.exit(1), if any

vars ==
    <<pc, file, pos, row_num, users, printed, i, total_users, successful_users,
      failed_users, successful_subscriptions, failed_subscriptions, results, cur, calls,
      exit_code, fatal>>

loaderVars == <<pos, row_num, users, printed>>
counterVars ==
    <<successful_users, failed_users, successful_subscriptions, failed_subscriptions>>
loopVars == <<i, total_users, results, cur, calls>>

NoLocals ==
    [success |-> FALSE, message |-> "", user_id |-> None,
     subscription_success |-> FALSE, subscription_message |-> ""]

Running == "running"

Init ==
    /\ pc = "open"
    /\ file \in Files
    /\ pos = 0
    /\ row_num = 2
    /\ users = <<>>
    /\ printed = <<>>
    /\ i = 0
    /\ total_users = 0
    /\ successful_users = 0
    /\ failed_users = 0
    /\ successful_subscriptions = 0
    /\ failed_subscriptions = 0
    /\ results = <<>>
    /\ cur = NoLocals
    /\ calls = <<>>
    /\ exit_code = Running
    /\ fatal = ""

\* except Exception as e: print("Error reading CSV file: ..."); sys.exit(1)
ErrorReadingCsv ==
    /\ pc' = "exit"
    /\ exit_code' = 1
    /\ fatal' = "Error reading CSV file"

(***************************************************************************)
(* read_users_from_csv, as main calls it                                   *)
(***************************************************************************)
OpenFile ==
    /\ pc = "open"
    /\ file.opens
    /\ pc' = "read"
    /\ UNCHANGED <<file, loaderVars, counterVars, loopVars, exit_code, fatal>>

OpenFails ==
    /\ pc = "open"
    /\ ~file.opens
    /\ ErrorReadingCsv
    /\ UNCHANGED <<file, loaderVars, counterVars, loopVars>>

\* The csv rows of the file
Rows == [k \in 1..Len(file.lines) |-> Row(file.lines[k])]

\* What one pass of the loop over the reader does with each line that is
\* not blank: the reader or strip raises, or the row is stripped into
\* user_data and takes one branch of the loop body.
LoopBody ==
    [line \in LineNames |->
        IF ReaderRaises(Row(line)) \/ StripRaises(Row(line))
        THEN [raises |-> TRUE, user_data |-> <<>>, branch |-> "raise"]
        ELSE [raises |-> FALSE, user_data |-> StripRow(Row(line)),
              branch |-> Validate(StripRow(Row(line)))]]

HasNextRow == NextNonBlank(Rows, pos) <= Len(Rows)
NextLine == file.lines[NextNonBlank(Rows, pos)]

\* The reader raises on the next line, or strip raises on a value of the
\* row's dict: the exception leaves read_users_from_csv and main exits.
RowRaises ==
    /\ pc = "read"
    /\ HasNextRow
    /\ LoopBody[NextLine].raises
    /\ ErrorReadingCsv
    /\ UNCHANGED <<file, loaderVars, counterVars, loopVars>>

\* One pass of the loop body that ends in a continue.
SkipRow ==
    /\ pc = "read"
    /\ HasNextRow
    /\ ~LoopBody[NextLine].raises
    /\ LoopBody[NextLine].branch # "ok"
    /\ printed' = printed \o SkipDiagnostic(row_num, LoopBody[NextLine].user_data)
    /\ pos' = NextNonBlank(Rows, pos)
    /\ row_num' = row_num + 1
    /\ UNCHANGED <<pc, file, users, counterVars, loopVars, exit_code, fatal>>

\* One pass of the loop body that reaches users.append.
AcceptRow ==
    /\ pc = "read"
    /\ HasNextRow
    /\ ~LoopBody[NextLine].raises
    /\ LoopBody[NextLine].branch = "ok"
    /\ printed' = printed \o SkipDiagnostic(row_num, LoopBody[NextLine].user_data)
    /\ users' = AppendUser(users, LoopBody[NextLine].user_data)
    /\ pos' = NextNonBlank(Rows, pos)
    /\ row_num' = row_num + 1
    /\ UNCHANGED <<pc, file, counterVars, loopVars, exit_code, fatal>>

\* The file is exhausted and the list is empty: "No valid users found".
NoValidUsers ==
    /\ pc = "read"
    /\ ~HasNextRow
    /\ NoUsers(users)
    /\ pc' = "exit"
    /\ exit_code' = 1
    /\ fatal' = "No valid users found in CSV file"
    /\ pos' = Len(Rows)
    /\ UNCHANGED <<file, row_num, users, printed, counterVars, loopVars>>

\* The file is exhausted: the counters are initialised and the loop starts.
StartLoop ==
    /\ pc = "read"
    /\ ~HasNextRow
    /\ ~NoUsers(users)
    /\ pc' = "loop"
    /\ pos' = Len(Rows)
    /\ total_users' = Len(users)
    /\ i' = 1
    /\ UNCHANGED <<file, row_num, users, printed, counterVars, results, cur,
                   calls, exit_code, fatal>>

(***************************************************************************)
(* main: the processing loop                                               *)
(***************************************************************************)
\* CountSkipped without the increment
CountSkippedForgotten(n) == n

\* failed_subscriptions += 1 in the else branch
CountSkipped(n) == n + 1

\* successful_subscriptions += 1 / failed_subscriptions += 1 in the try block
CountSubscribed(outcome, n) == IF outcome.subscription_success THEN n + 1 ELSE n
CountNotSubscribed(outcome, n) == IF outcome.subscription_success THEN n ELSE n + 1

\* if success: successful_users += 1 else: failed_users += 1
CountCreated(success, n) == IF success THEN n + 1 ELSE n
CountNotCreated(success, n) == IF success THEN n ELSE n + 1

\* The next record is taken: create_user is called and returns, and the
\* subscription locals are reset.
CallCreateUser ==
    /\ pc = "loop"
    /\ i <= total_users
    /\ \E resp \in CreateResponses(i) :
         LET ret == create_user(users[i], resp) IN
         /\ cur' = [success |-> ret.success, message |-> ret.message,
                    user_id |-> ret.user_id,
                    subscription_success |-> FALSE, subscription_message |-> ""]
         /\ calls' = Append(calls, [op |-> "create_user", rec |-> i,
                                    arg |-> users[i], ret |-> ret])
    /\ pc' = "created"
    /\ UNCHANGED <<file, loaderVars, counterVars, i, total_users, results, exit_code, fatal>>

\* The if branch: subscribe is called; it returns a response or raises.
CallSubscribe ==
    /\ pc = "created"
    /\ ShouldSubscribe(cur.success, cur.user_id)
    /\ \E resp \in SubscribeResponses :
         LET outcome == SubscriptionOutcome(resp) IN
         /\ cur' = [cur EXCEPT !.subscription_success = outcome.subscription_success,
                               !.subscription_message = outcome.subscription_message]
         /\ calls' = Append(calls, [op |-> "subscribe", rec |-> i,
                                    arg |-> SubscribePayload(cur.user_id, "USER"),
                                    ret |-> resp])
         /\ successful_subscriptions' = CountSubscribed(outcome, successful_subscriptions)
         /\ failed_subscriptions' = CountNotSubscribed(outcome, failed_subscriptions)
    /\ pc' = "append"
    /\ UNCHANGED <<file, loaderVars, successful_users, failed_users, i, total_users,
                   results, exit_code, fatal>>

\* The else branch: no call, the skipped outcome.
SkipSubscribe ==
    /\ pc = "created"
    /\ ~ShouldSubscribe(cur.success, cur.user_id)
    /\ failed_subscriptions' = CountSkipped(failed_subscriptions)
    /\ cur' = [cur EXCEPT !.subscription_success = SkippedOutcome.subscription_success,
                          !.subscription_message = SkippedOutcome.subscription_message]
    /\ pc' = "append"
    /\ UNCHANGED <<file, loaderVars, successful_users, failed_users,
                   successful_subscriptions, i, total_users, results, calls, exit_code,
                   fatal>>

ResultRow(user_data, locals) ==
    [username |-> user_data["username"], success |-> locals.success,
     message |-> locals.message, subscription_success |-> locals.subscription_success,
     subscription_message |-> locals.subscription_message]

\* The end of the loop body: the result row is appended and the creation
\* is counted; the for loop moves to the next record.
RecordResult ==
    /\ pc = "append"
    /\ results' = AppendResult(results, ResultRow(users[i], cur))
    /\ successful_users' = CountCreated(cur.success, successful_users)
    /\ failed_users' = CountNotCreated(cur.success, failed_users)
    /\ i' = i + 1
    /\ cur' = NoLocals
    /\ pc' = "loop"
    /\ UNCHANGED <<file, loaderVars, successful_subscriptions, failed_subscriptions,
                   total_users, calls, exit_code, fatal>>

\* The loop is over: the summary is printed and the process exits.
Summary ==
    /\ pc = "loop"
    /\ i > total_users
    /\ pc' = "exit"
    /\ exit_code' = ExitCode(failed_users, failed_subscriptions)
    /\ UNCHANGED <<file, loaderVars, counterVars, loopVars, fatal>>

Next ==
    \/ OpenFile
    \/ OpenFails
    \/ RowRaises
    \/ SkipRow
    \/ AcceptRow
    \/ NoValidUsers
    \/ StartLoop
    \/ CallCreateUser
    \/ CallSubscribe
    \/ SkipSubscribe
    \/ RecordResult
    \/ Summary

Spec == Init /\ [][Next]_vars

(***************************************************************************)
(* Properties                                                              *)
(***************************************************************************)
Count(seq, Test(_)) == Cardinality({k \in 1..Len(seq) : Test(seq[k])})

\* The positions in the call log of the calls of op made for record k.
CallsOf(op, k) == {c \in 1..Len(calls) : calls[c].op = op /\ calls[c].rec = k}

\* main has left the processing loop through the summary.
LoopFinished == pc = "exit" /\ fatal = ""

\* create_user returned success for record k.
CreatedOk(k) == \E c \in CallsOf("create_user", k) : calls[c].ret.success

\* subscribe returned a response with status 200 for record k.
Subscribed200(k) ==
    \E c \in CallsOf("subscribe", k) :
        ~calls[c].ret.raised /\ calls[c].ret.status_code = 200

\* C1: once main has gone through the processing loop, the exit code is 0
\* if and only if, for every loaded record, create_user returned success
\* and subscribe returned HTTP 200; otherwise it is 1.
C1_ExitCodeIffAllSucceeded ==
    LoopFinished =>
        /\ exit_code \in {0, 1}
        /\ exit_code = 0 <=> \A k \in 1..Len(users) : CreatedOk(k) /\ Subscribed200(k)

\* Reached: a run of two records that exits 0, and the call log shows both
\* created and subscribed.
C1_Witness ==
    /\ LoopFinished
    /\ exit_code = 0
    /\ Len(users) = 2
    /\ \A k \in 1..2 : CreatedOk(k) /\ Subscribed200(k)

\* C2: for every record whose create_user returned success = false,
\* subscribe is never called, the record's subscription outcome is the
\* skipped outcome, and the record is counted in failed_subscriptions as a
\* subscription failure is: at the head of the loop failed_subscriptions is
\* the number of failed creations plus the number of created records whose
\* subscription did not succeed.
C2_FailedCreationSkipsSubscribe ==
    /\ \A c \in 1..Len(calls) :
         (calls[c].op = "create_user" /\ ~calls[c].ret.success)
             => CallsOf("subscribe", calls[c].rec) = {}
    /\ \A k \in 1..Len(results) :
         ~results[k].success =>
             /\ ~CreatedOk(k)
             /\ ~results[k].subscription_success
             /\ results[k].subscription_message = SkippedMessage
    /\ pc \in {"loop", "exit"} =>
         failed_subscriptions =
             Count(results, LAMBDA r : ~r.success)
             + Count(results, LAMBDA r : r.success /\ ~r.subscription_success)

\* Reached: the loop is over, a record's creation failed with a conflict
\* and another record was created and subscribed.
C2_Witness ==
    /\ LoopFinished
    /\ \E k \in 1..Len(results) :
         /\ ~results[k].success
         /\ results[k].message = "User already exists"
         /\ results[k].subscription_message = SkippedMessage
    /\ \E k \in 1..Len(results) : results[k].subscription_success
    /\ failed_subscriptions >= 1

\* C3: for every record whose create_user returned success = true,
\* subscribe is invoked exactly once, with that record's user id and
\* principal type "USER", and the skipped outcome is never recorded for it,
\* also when the CreateUser response carries no or an empty UserId.
C3_CreatedUserIsSubscribedOnce ==
    \A k \in 1..Len(results) :
        CreatedOk(k) =>
            /\ Cardinality(CallsOf("subscribe", k)) = 1
            /\ \A c \in CallsOf("subscribe", k) : \A d \in CallsOf("create_user", k) :
                 calls[c].arg = SubscribePayload(calls[d].ret.user_id, "USER")
            /\ results[k].subscription_message # SkippedMessage

\* A data row with its fields trimmed.
Trimmed(row) == [f \in 1..Len(row) |-> Strip(row[f])]

\* The position of the username column in the header.
UsernameColumn == CHOOSE f \in 1..NumFields : FieldNames[f] = "username"

\* The rule of inclusion, stated on the csv row: five fields, all non-empty
\* after trimming, the username not reserved whatever its case and of at
\* most 128 characters.
Includable(row) ==
    /\ Len(row) = NumFields
    /\ \A f \in 1..NumFields : Trimmed(row)[f] # <<>>
    /\ Lower(Trimmed(row)[UsernameColumn]) \notin ReservedNames
    /\ Len(Trimmed(row)[UsernameColumn]) <= 128

\* The record a row gives: its trimmed fields under the header's names.
RecordOf(row) == [key \in {FieldNames[f] : f \in 1..NumFields} |->
                     Trimmed(row)[FieldIndex(key)]]

\* The lines whose row is includable, and the record of each.
IncludableLines == {line \in LineNames : Includable(Row(line))}
RecordOfLine == [line \in IncludableLines |-> RecordOf(Row(line))]

\* The records of the includable rows among the first n rows, in file order.
RECURSIVE IncludedUpTo(_)
IncludedUpTo(n) ==
    IF n = 0 THEN <<>>
    ELSE IF file.lines[n] \in IncludableLines
    THEN Append(IncludedUpTo(n - 1), RecordOfLine[file.lines[n]])
    ELSE IncludedUpTo(n - 1)

\* The lines the csv reader rejects.
RejectedLines == {line \in LineNames : ReaderRaises(Row(line))}

\* read_users_from_csv has returned its list to main.
LoaderReturned == pc \notin {"open", "read"} /\ fatal # "Error reading CSV file"

\* C4: the list read_users_from_csv builds holds a data row if and only if,
\* after trimming, its five fields are non-empty and its username is not
\* reserved and has at most 128 characters (128 is accepted): the list is
\* the records of the includable rows read so far and, once returned, of
\* the whole file; create_user is only ever called with such a record.
C4_LoadedIffValid ==
    /\ users = IncludedUpTo(pos)
    /\ LoaderReturned => pos = Len(Rows)
    /\ \A c \in 1..Len(calls) :
         calls[c].op = "create_user" =>
             \E p \in 1..Len(file.lines) :
                 /\ file.lines[p] \in IncludableLines
                 /\ calls[c].arg = RecordOfLine[file.lines[p]]

\* Reached: the list was returned with a username of exactly 128
\* characters in it, a row of the file was left out, and create_user was
\* called with the 128-character username.
C4_Witness ==
    /\ LoaderReturned
    /\ Len(users) < Len(Rows)
    /\ \E c \in 1..Len(calls) :
         calls[c].op = "create_user" /\ Len(calls[c].arg["username"]) = 128

\* C5: a bad data row never aborts loading: for a file that can be opened,
\* has the expected header and holds no line the csv reader rejects, the run
\* never ends in the fatal "Error reading CSV file", and once the file is
\* read the list holds every valid row.
C5_BadRowNeverAborts ==
    (file.opens /\ \A p \in 1..Len(file.lines) : file.lines[p] \notin RejectedLines) =>
        /\ fatal # "Error reading CSV file"
        /\ pc \notin {"open", "read"} => users = IncludedUpTo(Len(file.lines))

\* C6: if the input file cannot be opened or parsed, or the list of valid
\* records is empty, the run exits with code 1, and no call of create_user
\* or subscribe is made in that run.
C6_FatalBeforeAnyCall ==
    /\ (pc = "exit" /\ (~file.opens
                        \/ (\E p \in 1..Len(file.lines) : file.lines[p] \in RejectedLines)
                        \/ users = <<>>))
           => (exit_code = 1 /\ calls = <<>> /\ fatal # "")
    /\ fatal # "" => (pc = "exit" /\ exit_code = 1 /\ calls = <<>> /\ results = <<>>)
    /\ (pc \in {"open", "read"} \/ users = <<>>) => calls = <<>>

\* Reached: a file of rows that are all skipped has been read to its end
\* and the run has exited for the lack of valid users.
C6_Witness ==
    /\ pc = "exit"
    /\ file.opens
    /\ Len(Rows) >= 2
    /\ pos = Len(Rows)
    /\ users = <<>>
    /\ printed # <<>>
    /\ fatal = "No valid users found in CSV file"
    /\ exit_code = 1

\* The blank lines, which DictReader does not yield, and the lines whose
\* row has only empty fields after trimming.
BlankLines == {line \in LineNames : Row(line) = <<>>}
AllEmptyLines ==
    {line \in LineNames \ BlankLines :
        \A f \in 1..Len(Row(line)) : Trimmed(Row(line))[f] = <<>>}

\* The lines with a row of five fields that is skipped for one of the three
\* reasons that come with a message, and that reason.
DiagnosedLines ==
    {line \in LineNames \ (BlankLines \cup AllEmptyLines \cup IncludableLines) :
        Len(Row(line)) = NumFields /\ ~ReaderRaises(Row(line))}
ReasonOfLine ==
    [line \in DiagnosedLines |->
        IF \E f \in 1..NumFields : Trimmed(Row(line))[f] = <<>> THEN "missing fields"
        ELSE IF Lower(Trimmed(Row(line))[UsernameColumn]) \in ReservedNames
        THEN "is reserved"
        ELSE "exceeds 128 characters"]

\* The rows the loop body has handled: the non-blank ones among the first pos.
Handled == {p \in 1..pos : file.lines[p] \notin BlankLines}

\* The number enumerate(reader, start=2) gives the row at position p.
RowNumberOf(p) == 1 + Cardinality({q \in 1..p : file.lines[q] \notin BlankLines})

\* C8 as stated: every skipped row produces a diagnostic, for each of the
\* four reasons, so the number of diagnostics printed is the number of rows
\* handled and left out of the list.
C8_EverySkipDiagnosed == Len(printed) = Cardinality(Handled) - Len(users)

\* C8, amended: a row skipped for an empty required field (not all of them),
\* a reserved username or a username of more than 128 characters produces
\* one diagnostic naming its row number (2 for the first row the reader
\* yields); a row with only empty fields is skipped without one: the
\* diagnostics printed are as many as the rows left out that are not all
\* empty.
C8_SkipDiagnosedUnlessAllEmpty ==
    LET diagnosed == {p \in Handled : file.lines[p] \in DiagnosedLines}
        silent == {p \in Handled : file.lines[p] \in AllEmptyLines}
    IN  /\ Len(printed) = Cardinality(diagnosed)
        /\ Len(printed) = Cardinality(Handled) - Len(users) - Cardinality(silent)
        /\ \A p \in diagnosed :
             \E d \in 1..Len(printed) :
                 /\ printed[d].row = RowNumberOf(p)
                 /\ printed[d].reason = ReasonOfLine[file.lines[p]]
        /\ \A p \in silent : \A d \in 1..Len(printed) : printed[d].row # RowNumberOf(p)

\* Reached: the list was returned after a row with only empty fields was
\* skipped in silence and a row that follows a blank line was skipped with
\* a diagnostic.
C8_Witness ==
    /\ LoaderReturned
    /\ \E p \in Handled : file.lines[p] \in AllEmptyLines
    /\ \E p \in Handled : file.lines[p] \in DiagnosedLines /\ RowNumberOf(p) # p + 1
    /\ Len(printed) = 1

\* C9: the list preserves file order: it is a subsequence of the file's
\* data rows, and create_user is called on its records in that order.
C9_FileOrderPreserved ==
    /\ \E at \in [1..Len(users) -> 1..Len(file.lines)] :
         /\ \A a, b \in 1..Len(users) : a < b => at[a] < at[b]
         /\ \A a \in 1..Len(users) :
              /\ file.lines[at[a]] \in IncludableLines
              /\ users[a] = RecordOfLine[file.lines[at[a]]]
    /\ LET created == SelectSeq(calls, LAMBDA c : c.op = "create_user")
       IN  /\ Len(created) <= Len(users)
           /\ \A k \in 1..Len(created) : created[k].arg = users[k]

\* Reached: two different records were loaded with a skipped row between
\* their rows, and both were handed to create_user.
C9_Witness ==
    /\ LoopFinished
    /\ Len(file.lines) = 3
    /\ file.lines[2] \notin IncludableLines
    /\ Len(users) = 2
    /\ users[1] # users[2]
    /\ Len(SelectSeq(calls, LAMBDA c : c.op = "create_user")) = 2

\* C10: at the head of the loop and after it, the counters agree with a
\* fold over the result rows: both pairs sum to the number of rows, each
\* counter is the number of rows with that outcome, failed_subscriptions is
\* at least failed_users, and after the loop the sums are total_users.
C10_CountersAgreeWithResults ==
    (pc = "loop" \/ LoopFinished) =>
        /\ successful_users + failed_users = Len(results)
        /\ successful_subscriptions + failed_subscriptions = Len(results)
        /\ successful_users = Count(results, LAMBDA r : r.success)
        /\ failed_users = Count(results, LAMBDA r : ~r.success)
        /\ successful_subscriptions = Count(results, LAMBDA r : r.subscription_success)
        /\ failed_subscriptions = Count(results, LAMBDA r : ~r.subscription_success)
        /\ failed_subscriptions >= failed_users
        /\ LoopFinished =>
             /\ successful_users + failed_users = total_users
             /\ successful_subscriptions + failed_subscriptions = total_users

\* Reached: the loop is over with a failed creation, a successful
\* subscription and a failed subscription of a created user.
C10_Witness ==
    /\ LoopFinished
    /\ Len(results) >= 3
    /\ failed_users >= 1
    /\ successful_subscriptions >= 1
    /\ failed_subscriptions > failed_users

\* The call log so far is that of a sequential loop without repetition:
\* the calls are in record order, each record has at most one create_user
\* call and at most one subscribe call, a subscribe call comes after its
\* record's create_user call, and at the head of the loop there is one
\* result row for each record before the index, in input order.
CallsInOrder ==
    /\ \A a, b \in 1..Len(calls) : a < b => calls[a].rec <= calls[b].rec
    /\ \A k \in 1..Len(users) :
         /\ Cardinality(CallsOf("create_user", k)) <= 1
         /\ Cardinality(CallsOf("subscribe", k)) <= 1
         /\ \A c \in CallsOf("create_user", k) : calls[c].arg = users[k]
         /\ \A b \in CallsOf("subscribe", k) : \E a \in CallsOf("create_user", k) : a < b
    /\ \A c \in 1..Len(calls) : calls[c].rec \in 1..Len(users)
    /\ pc = "loop" => Len(results) = i - 1
    /\ Len(results) <= Len(users)
    /\ \A k \in 1..Len(results) : results[k].username = users[k]["username"]

\* The loop is over with every record handled once.
AllHandledOnce ==
    /\ LoopFinished
    /\ Len(results) = Len(users)
    /\ \A k \in 1..Len(users) :
         /\ Cardinality(CallsOf("create_user", k)) = 1
         /\ \A c \in CallsOf("create_user", k) :
              results[k].success = calls[c].ret.success

\* Where main is while it is in the processing loop.
InLoop == pc \in {"loop", "created", "append"}

\* What is left of the loop: three steps for each record not yet begun, and
\* the steps left of the current one.
StepsLeft ==
    IF ~InLoop THEN 0
    ELSE 3 * (total_users + 1 - i)
         + (IF pc = "loop" THEN 3 ELSE IF pc = "created" THEN 2 ELSE 1)

\* C7: a failure of a record neither aborts nor repeats work: whatever
\* create_user and subscribe do, the loop, once entered, terminates (in the
\* loop a step is always possible, and every step lessens what is left of
\* it) with create_user called exactly once for every loaded record, in
\* input order, subscribe called at most once per record, after that
\* record's create_user and before the next record's, and one result row
\* per record in input order.
C7_LoopHandlesEveryRecordOnce ==
    /\ []CallsInOrder
    /\ [](InLoop => ENABLED Next)
    /\ [][InLoop => StepsLeft' < StepsLeft]_vars
    /\ [](LoopFinished => AllHandledOnce)

\* Reached: the loop is over for three records, one whose creation failed,
\* then one whose subscribe raised, then one subscribed.
C7_Witness ==
    /\ LoopFinished
    /\ Len(results) = 3
    /\ ~results[1].success
    /\ \E c \in CallsOf("subscribe", 2) : calls[c].ret.raised
    /\ results[3].subscription_success

=============================================================================
